---- MODULE Spec2Model ----
(***************************************************************************)
(* A model of readlif/reader.py: opening a LIF container (header check,    *)
(* block scan with the truncation heuristic, descriptor list, block /      *)
(* descriptor reconciliation) and the addressing of single planes          *)
(* (get_frame, get_frame_np, get_stack_np, the per-axis iterators).        *)
(*                                                                         *)
(* The file is a sequence of bytes (0..255); file positions are 0-based    *)
(* as in Python.  The XML header is modelled by a small token language:    *)
(* one UTF-16 code unit per tag (see ParseXml).                            *)
(***************************************************************************)
EXTENDS Integers, Sequences, FiniteSets, TLC

\* ------------------------------------------------------------------ bounds
\* Longest sequence of segments after the header in a generated file.
MaxSegs == 2
\* Largest number of elements in the generated XML document.
MaxElems == 2
\* Largest coordinate / index handed to the accessors.
MaxCoord == 2

\* ------------------------------------------------------- program constants
\* b"\x70\x00\x00\x00", the first byte of the magic (reader.py line 369)
MagicByte == 112
\* b"\x2a", the memory byte (reader.py line 381)
MemByte == 42
\* _check_truncated reads 100 bytes ...
TruncWindow == 100
\* ... after seeking 4 bytes back
TruncBack == 4

Magic == <<MagicByte, 0, 0, 0>>

Min(a, b) == IF a < b THEN a ELSE b

Zeros(n) == [i \in 1..n |-> 0]

RECURSIVE Prod(_)
Prod(s) == IF s = <<>> THEN 1 ELSE Head(s) * Prod(Tail(s))

\* handle.read(n) at position p: the bytes p .. p+n-1 that exist (a read at
\* or beyond end-of-file returns no bytes).
Read(f, p, n) ==
    IF p >= Len(f) THEN <<>> ELSE SubSeq(f, p + 1, Min(p + n, Len(f)))

\* struct.unpack("I" / "Q", bytes): the little-endian unsigned value.
RECURSIVE Unpack(_)
Unpack(bs) == IF bs = <<>> THEN 0 ELSE Head(bs) + 256 * Unpack(Tail(bs))

\* The inverse layout, used to build input files: n as k little-endian bytes.
RECURSIVE Pack(_, _)
Pack(n, k) == IF k = 0 THEN <<>> ELSE <<n % 256>> \o Pack(n \div 256, k - 1)

\* bytes.decode("utf-16") of a BOM-less buffer: one code unit per byte pair;
\* an odd number of bytes is a UnicodeDecodeError.
Utf16Units(bs) == [i \in 1..(Len(bs) \div 2) |-> bs[2 * i - 1] + 256 * bs[2 * i]]


\* ------------------------------------------------------------ the document
\* The XML header, one code unit per tag: the root's opening tag, one unit
\* per <Element> child (Tag.element + its kind) and the root's closing tag.
Tag == [open |-> 1, close |-> 2, element |-> 10]

\* The kinds of <Element>.  chans: one <ChannelDescription> per entry with
\* its BytesInc and Resolution; dd: the <DimensionDescription> children by
\* DimID, each with NumberOfElements and BytesInc (1 = X, 2 = Y, 3 = Z,
\* 4 = T, 10 = M); image: whether it has <Dimensions> at all.
ElementKinds == <<
    \* 2 channels x 2 z, 8-bit planes of 1 x 2, channels interleaved per z
    [image |-> TRUE,
     chans |-> <<[inc |-> 0, res |-> 8], [inc |-> 2, res |-> 8]>>,
     dd |-> (1 :> [n |-> 2, inc |-> 1]) @@ (2 :> [n |-> 1, inc |-> 2])
            @@ (3 :> [n |-> 2, inc |-> 4])],
    \* 2 channels x 2 t x 2 tiles, 16-bit planes of 1 x 1
    [image |-> TRUE,
     chans |-> <<[inc |-> 0, res |-> 16], [inc |-> 2, res |-> 16]>>,
     dd |-> (1 :> [n |-> 1, inc |-> 2]) @@ (2 :> [n |-> 1, inc |-> 2])
            @@ (4 :> [n |-> 2, inc |-> 4]) @@ (10 :> [n |-> 2, inc |-> 8])],
    \* a single channel
    [image |-> TRUE,
     chans |-> <<[inc |-> 0, res |-> 8]>>,
     dd |-> (1 :> [n |-> 2, inc |-> 1]) @@ (2 :> [n |-> 1, inc |-> 2])],
    \* an element that is no image (no <Dimensions>)
    [image |-> FALSE, chans |-> <<>>, dd |-> <<>>]
>>

\* ET.fromstring on the decoded header: the children of the root, or
\* "ParseError" when the text is not <open> element* <close>.
ParseXml(units) ==
    IF /\ Len(units) >= 2
       /\ units[1] = Tag.open
       /\ units[Len(units)] = Tag.close
       /\ \A i \in 2..(Len(units) - 1) :
             units[i] - Tag.element \in 1..Len(ElementKinds)
    THEN [ok |-> TRUE,
          root |-> [i \in 1..(Len(units) - 2) |-> units[i + 1] - Tag.element]]
    ELSE [ok |-> FALSE, root |-> <<>>]

\* The descriptor _recursive_image_find builds for one leaf image, or the
\* IndexError of strides = [ch_offsets[1]] when it has fewer than 2 channels.
DimIds == <<3, 4, 10, 2, 1>>

DimOf(e, id) ==
    IF id \in DOMAIN e.dd THEN e.dd[id] ELSE [n |-> 1, inc |-> 0]

Descriptor(e) ==
    LET n_channels == Len(e.chans) IN
    [ok |-> n_channels >= 2,
     channels |-> n_channels,
     ch_resolutions |-> [c \in 1..n_channels |-> e.chans[c].res],
     dims |-> <<n_channels>> \o [i \in 1..5 |-> DimOf(e, DimIds[i]).n],
     stride |-> IF n_channels >= 2
                THEN <<e.chans[2].inc>> \o [i \in 1..5 |-> DimOf(e, DimIds[i]).inc]
                ELSE <<>>]

\* _recursive_image_find over the root's children (none of them a folder):
\* one descriptor per image element, in document order; elements that are
\* no image are skipped; the first failing descriptor fails the walk.
RECURSIVE ImageFind(_)
ImageFind(root) ==
    IF root = <<>> THEN [ok |-> TRUE, list |-> <<>>]
    ELSE LET e == ElementKinds[Head(root)]
             rest == ImageFind(Tail(root))
         IN IF ~e.image THEN rest
            ELSE IF ~Descriptor(e).ok THEN [ok |-> FALSE, list |-> <<>>]
            ELSE IF ~rest.ok THEN rest
            ELSE [ok |-> TRUE, list |-> <<Descriptor(e)>> \o rest.list]

\* ---------------------------------------------------------- input files
\* The header of a file whose document has the element kinds doc.
XmlUnits(doc) ==
    <<Tag.open>> \o [i \in 1..Len(doc) |-> Tag.element + doc[i]] \o <<Tag.close>>

RECURSIVE Utf16Bytes(_)
Utf16Bytes(units) ==
    IF units = <<>> THEN <<>>
    ELSE <<Head(units) % 256, Head(units) \div 256>> \o Utf16Bytes(Tail(units))

GoodHeader(doc) ==
    Magic \o <<0, 0, 0, 0>> \o <<MemByte>> \o Pack(Len(doc) + 2, 4)
          \o Utf16Bytes(XmlUnits(doc))

\* Headers that fail before the scan: a bad magic, a bad memory byte, a
\* header-length field cut short, an odd number of header bytes, a header
\* without its closing tag.
BadHeaders == <<
    <<1, 0, 0, 0>> \o <<0, 0, 0, 0>> \o <<MemByte>> \o Pack(2, 4)
         \o Utf16Bytes(XmlUnits(<<>>)),
    Magic \o <<0, 0, 0, 0>> \o <<0>> \o Pack(2, 4) \o Utf16Bytes(XmlUnits(<<>>)),
    Magic \o <<0, 0, 0, 0>> \o <<MemByte>> \o <<2, 0>>,
    Magic \o <<0, 0, 0, 0>> \o <<MemByte>> \o Pack(2, 4) \o <<1, 0, 2>>,
    Magic \o <<0, 0, 0, 0>> \o <<MemByte>> \o Pack(2, 4) \o <<1, 0, 1, 0>> >>

Payload == <<11, 12, 13, 14, 15, 16, 17, 18>>

\* The block headers of the generated files: the 4-byte (wide = FALSE) or
\* 8-byte form of the length, the declared length len, the description
\* length d (in 2-byte units) and how many payload bytes are present.
BlockKinds == <<
    [wide |-> FALSE, len |-> 8, d |-> 0, pay |-> 8],
    [wide |-> FALSE, len |-> 0, d |-> 1, pay |-> 0],
    [wide |-> TRUE, len |-> 8, d |-> 1, pay |-> 8],
    [wide |-> FALSE, len |-> 8, d |-> 0, pay |-> 3]
>>

BlockSeg(b) ==
    Magic \o <<0, 0, 0, 0>> \o <<MemByte>>
          \o Pack(b.len, IF b.wide THEN 8 ELSE 4) \o <<MemByte>>
          \o Pack(b.d, 4) \o [i \in 1..(2 * b.d) |-> 9]
          \o SubSeq(Payload, 1, b.pay)

\* What may follow the header: the four blocks, a zero tail as long as the
\* truncation window, one a byte shorter, bytes that are no header, a
\* magic alone, an 8-byte block header that stops before its marker, and a
\* header that stops inside its length.
Segments ==
    [i \in 1..Len(BlockKinds) |-> BlockSeg(BlockKinds[i])] \o <<
    Zeros(TruncWindow),
    Zeros(TruncWindow - 1),
    <<1, 1, 1, 1, 1>>,
    Magic,
    Magic \o <<0, 0, 0, 0>> \o <<MemByte>> \o Pack(8, 8),
    Magic \o <<0, 0, 0, 0>> \o <<MemByte>> \o <<8, 0>>
>>

RECURSIVE Concat(_)
Concat(ss) == IF ss = <<>> THEN <<>> ELSE Head(ss) \o Concat(Tail(ss))

SeqsUpTo(S, n) == UNION {[1..k -> S] : k \in 0..n}

\* An input: bad = 0 and a document doc followed by the segments lay, or
\* the bad header number bad.
FileOf(in) ==
    IF in.bad # 0 THEN BadHeaders[in.bad]
    ELSE GoodHeader(in.doc) \o Concat([i \in 1..Len(in.lay) |-> Segments[in.lay[i]]])

InputsOf(kinds, segs, nsegs) ==
    { [bad |-> 0, doc |-> doc, lay |-> lay] :
        doc \in SeqsUpTo(kinds, MaxElems), lay \in SeqsUpTo(segs, nsegs) }

Inputs ==
    { [bad |-> b, doc |-> <<>>, lay |-> <<>>] : b \in 1..Len(BadHeaders) }
    \cup InputsOf(1..Len(ElementKinds), 1..Len(Segments), MaxSegs)

\* Two-channel images over whole blocks, a block cut short, a zero tail.
AccessInputs == InputsOf({1, 2}, {1, 4, 5}, MaxSegs)

\* ------------------------------------------------------------------ state
VARIABLES
    input,             \* what the file was generated from (never read)
    file,              \* the bytes of the file at self.filename
    pc,                \* "init", "scan", "opened" or "failed" (LifFile.__init__)
    pos,               \* f.tell() of the handle __init__ holds
    f_len,             \* _get_len(f)
    openHandles,       \* file handles opened and not yet closed
    xml_root,          \* self.xml_root: the element kinds under the root
    offsets,           \* self.offsets: <<offset, length>> per block
    truncated,         \* the local truncated of __init__
    truncation_begin,  \* the local truncation_begin (-1: never assigned)
    fail_at,           \* f.tell() when the except clause was entered (-1: never)
    warned,            \* number of UserWarnings emitted
    image_list,        \* self.image_list
    num_images,        \* self.num_images (-1: never assigned)
    err,               \* the exception __init__ raised ("" when none)
    img,               \* the LifImage last returned by get_image (<<>>: none)
    last,              \* the outcome of the last accessor call
    gen                \* the generator last returned by a get_iter_* call

vars == <<input, file, pc, pos, f_len, openHandles, xml_root, offsets,
          truncated, truncation_begin, fail_at, warned, image_list, num_images,
          err, img, last, gen>>

container == <<input, file, pc, pos, f_len, xml_root, offsets, truncated,
               truncation_begin, fail_at, warned, image_list, num_images, err>>

NoCall == [op |-> "none"]
NoGen == [axis |-> "none"]

\* open(filename, "rb") and f.close() / the end of a with block.
Acquire(h) == h + 1
Release(h) == h - 1

Start(inputs) ==
    /\ input \in inputs
    /\ file = FileOf(input)
    /\ pc = "init"
    /\ pos = 0
    /\ f_len = 0
    /\ openHandles = 0
    /\ xml_root = <<>>
    /\ offsets = <<>>
    /\ truncated = FALSE
    /\ truncation_begin = -1
    /\ fail_at = -1
    /\ warned = 0
    /\ image_list = <<>>
    /\ num_images = -1
    /\ err = ""
    /\ img = <<>>
    /\ last = NoCall
    /\ gen = NoGen

Init == Start(Inputs)

InitAccess == Start(AccessInputs)

\* ------------------------------------------------------------ the header
\* Lines 517-527: what the header check and the XML parse end with.
Header(f) ==
    IF Read(f, 0, 4) # Magic THEN [err |-> "ValueError", pos |-> Len(Read(f, 0, 4)), root |-> <<>>]
    ELSE IF Read(f, 8, 1) # <<MemByte>>
         THEN [err |-> "ValueError", pos |-> 8 + Len(Read(f, 8, 1)), root |-> <<>>]
    ELSE IF Len(Read(f, 9, 4)) < 4
         THEN [err |-> "struct.error", pos |-> 9 + Len(Read(f, 9, 4)), root |-> <<>>]
    ELSE LET header_len == Unpack(Read(f, 9, 4))
             text == Read(f, 13, header_len * 2)
             end == 13 + Len(text)
         IN IF Len(text) % 2 # 0
            THEN [err |-> "UnicodeDecodeError", pos |-> end, root |-> <<>>]
            ELSE IF ~ParseXml(Utf16Units(text)).ok
            THEN [err |-> "ParseError", pos |-> end, root |-> <<>>]
            ELSE [err |-> "", pos |-> end, root |-> ParseXml(Utf16Units(text)).root]

OpenHeader ==
    /\ pc = "init"
    /\ LET h == Header(file) IN
       /\ openHandles' = Acquire(openHandles)
       /\ f_len' = Len(file)
       /\ pos' = h.pos
       /\ xml_root' = h.root
       /\ err' = h.err
       /\ pc' = IF h.err = "" THEN "scan" ELSE "failed"
    /\ UNCHANGED <<input, file, offsets, truncated, truncation_begin, fail_at,
                   warned, image_list, num_images, img, last, gen>>

\* ---------------------------------------------------------- the block scan
\* CheckTruncated without the f.seek(0, 2) of line 561: the loop goes on
\* from the truncation offset.
CheckTruncatedNoSeekEnd(f, fp) ==
    LET start == fp - TruncBack
        window == Read(f, start, TruncWindow)
    IN IF window = Zeros(TruncWindow)
       THEN [kind |-> "truncated", pos |-> start, begin |-> start, fail |-> fp]
       ELSE IF start + Len(window) - TruncWindow < 0
       THEN [kind |-> "OSError", pos |-> start + Len(window), begin |-> -1,
             fail |-> fp]
       ELSE [kind |-> "ValueError", pos |-> start + Len(window) - TruncWindow,
             begin |-> -1, fail |-> fp]

\* _check_truncated after a ValueError left the handle at position fp, and
\* the rest of the except clause (lines 554-564).
CheckTruncated(f, fp) ==
    LET start == fp - TruncBack
        window == Read(f, start, TruncWindow)
    IN IF window = Zeros(TruncWindow)
       THEN [kind |-> "truncated", pos |-> Len(f), begin |-> start, fail |-> fp]
       ELSE IF start + Len(window) - TruncWindow < 0
       THEN [kind |-> "OSError", pos |-> start + Len(window), begin |-> -1,
             fail |-> fp]
       ELSE [kind |-> "ValueError", pos |-> start + Len(window) - TruncWindow,
             begin |-> -1, fail |-> fp]

\* BlockTail recording f.tell() alone as the offset of the block, without
\* the description_len of line 550.
BlockTailNoDescription(f, s, block_len) ==
    IF Len(Read(f, s, 4)) < 4
    THEN [kind |-> "struct.error", pos |-> s + Len(Read(f, s, 4)), begin |-> -1,
          fail |-> -1]
    ELSE LET description_len == Unpack(Read(f, s, 4)) * 2 IN
         [kind |-> "block", begin |-> -1, fail |-> -1,
          record |-> block_len > 0,
          entry |-> <<s + 4, block_len>>,
          pos |-> s + 4 + description_len + block_len]

\* Lines 547-552, entered at position s with block_len read.
BlockTail(f, s, block_len) ==
    IF Len(Read(f, s, 4)) < 4
    THEN [kind |-> "struct.error", pos |-> s + Len(Read(f, s, 4)), begin |-> -1,
          fail |-> -1]
    ELSE LET description_len == Unpack(Read(f, s, 4)) * 2 IN
         [kind |-> "block", begin |-> -1, fail |-> -1,
          record |-> block_len > 0,
          entry |-> <<s + 4 + description_len, block_len>>,
          pos |-> s + 4 + description_len + block_len]

\* One pass of the while loop (lines 531-564) from position p.
ScanStep(f, p) ==
    LET magic == Read(f, p, 4) IN
    IF magic # Magic THEN CheckTruncated(f, p + Len(magic))
    ELSE LET q == p + 8
             mem == Read(f, q, 1)
         IN
         IF mem # <<MemByte>> THEN CheckTruncated(f, q + Len(mem))
         ELSE LET short == Read(f, q + 1, 4) IN
              IF Len(short) < 4
              THEN [kind |-> "struct.error", pos |-> q + 1 + Len(short),
                    begin |-> -1, fail |-> -1]
              ELSE LET mem2 == Read(f, q + 5, 1) IN
                   IF mem2 = <<MemByte>> THEN BlockTail(f, q + 6, Unpack(short))
                   ELSE LET r == q + 5 + Len(mem2) - 5
                            long == Read(f, r, 8)
                        IN
                        IF Len(long) < 8
                        THEN [kind |-> "struct.error", pos |-> r + Len(long),
                              begin |-> -1, fail |-> -1]
                        ELSE LET mem3 == Read(f, r + 8, 1) IN
                             IF mem3 # <<MemByte>>
                             THEN CheckTruncated(f, r + 8 + Len(mem3))
                             ELSE BlockTail(f, r + 9, Unpack(long))

ScanBlock ==
    /\ pc = "scan"
    /\ pos < f_len
    /\ LET s == ScanStep(file, pos) IN
       /\ pos' = s.pos
       /\ offsets' = IF s.kind = "block" /\ s.record
                     THEN Append(offsets, s.entry) ELSE offsets
       /\ truncated' = (truncated \/ s.kind = "truncated")
       /\ truncation_begin' = IF s.kind = "truncated" THEN s.begin
                              ELSE truncation_begin
       /\ fail_at' = IF s.fail >= 0 THEN s.fail ELSE fail_at
       /\ warned' = IF s.kind = "truncated" THEN warned + 1 ELSE warned
       /\ err' = IF s.kind \in {"block", "truncated"} THEN "" ELSE s.kind
       /\ pc' = IF s.kind \in {"block", "truncated"} THEN "scan" ELSE "failed"
    /\ UNCHANGED <<input, file, f_len, openHandles, xml_root, image_list,
                   num_images, img, last, gen>>

\* ------------------------------------------------- close, find, reconcile
\* Lines 572-578: the offsets after the truncation padding.
Reconcile(offs, n_images, trunc, begin) ==
    IF trunc /\ n_images > Len(offs)
    THEN offs \o [i \in 1..(n_images - Len(offs)) |-> <<begin, 0>>]
    ELSE offs

\* Lines 580-583: the consistency check.
Inconsistent(n_images, n_offsets, trunc) == n_images # n_offsets /\ ~trunc

\* Lines 566-585, once the loop has ended.
Finish ==
    /\ pc = "scan"
    /\ pos >= f_len
    /\ openHandles' = Release(openHandles)
    /\ LET found == ImageFind(xml_root)
           offs == Reconcile(offsets, Len(found.list), truncated, truncation_begin)
       IN IF ~found.ok
          THEN /\ err' = "IndexError"
               /\ pc' = "failed"
               /\ UNCHANGED <<image_list, offsets, num_images>>
          ELSE /\ image_list' = found.list
               /\ offsets' = offs
               /\ IF Inconsistent(Len(found.list), Len(offs), truncated)
                  THEN /\ err' = "ValueError"
                       /\ pc' = "failed"
                       /\ UNCHANGED num_images
                  ELSE /\ err' = ""
                       /\ pc' = "opened"
                       /\ num_images' = Len(found.list)
    /\ UNCHANGED <<input, file, pos, f_len, xml_root, truncated,
                   truncation_begin, fail_at, warned, img, last, gen>>

\* -------------------------------------------------------------- get_image
\* seq[i] as Python indexes a list: negative i counts from the end.
InRange(seq, i) == -Len(seq) <= i /\ i < Len(seq)
PyIndex(seq, i) == IF i >= 0 THEN seq[i + 1] ELSE seq[Len(seq) + i + 1]

\* Lines 598-603: the exception get_image(img_n) raises, "" when none.
GetImageError(img_n) ==
    IF img_n >= Len(image_list) THEN "ValueError"
    ELSE IF ~InRange(offsets, img_n) \/ ~InRange(image_list, img_n)
    THEN "IndexError"
    ELSE ""

\* LifImage.__init__ (lines 29-43), the fields the accessors read.
LifImage(image_info, offs) ==
    [dims |-> image_info.dims,
     channels |-> image_info.channels,
     nz |-> image_info.dims[2],
     nt |-> image_info.dims[3],
     stride |-> image_info.stride,
     itemsize |-> image_info.ch_resolutions[1] \div 8,
     offsets |-> offs]

get_image(img_n) ==
    /\ pc = "opened"
    /\ LET e == GetImageError(img_n) IN
       /\ last' = [op |-> "get_image", img_n |-> img_n, raised |-> e]
       /\ img' = IF e = ""
                 THEN LifImage(PyIndex(image_list, img_n), PyIndex(offsets, img_n))
                 ELSE img
    /\ gen' = NoGen
    /\ UNCHANGED <<container, openHandles>>

\* ------------------------------------------------------- single-plane reads
\* What an accessor call ends with.  raised: the exception ("" when none)
\* and, for a range error, the axis its message names; opened: whether the
\* file was opened; at: the file position the read starts at (-1: no read
\* position was computed); nbytes: bytes taken from the file; elems and
\* elemsize: number and byte width of the elements returned; data: the
\* bytes of the returned plane.
Raise(exc, axis) ==
    [raised |-> exc, axis |-> axis, opened |-> FALSE, at |-> -1, nbytes |-> 0,
     elems |-> 0, elemsize |-> 0, data |-> <<>>]

\* Image.frombytes("L", size, data): one byte per pixel, the first
\* size[0] * size[1] bytes of data; fewer bytes are "not enough image data".
FromBytes(width, height, data, at, nbytes) ==
    IF Len(data) < width * height
    THEN [raised |-> "ValueError", axis |-> "data", opened |-> TRUE, at |-> at,
          nbytes |-> nbytes, elems |-> 0, elemsize |-> 0, data |-> <<>>]
    ELSE [raised |-> "", axis |-> "", opened |-> TRUE, at |-> at,
          nbytes |-> nbytes, elems |-> width * height, elemsize |-> 1,
          data |-> SubSeq(data, 1, width * height)]

\* np.fromfile(image, dtype, count, offset) followed by np.reshape(im,
\* dims_yx): the whole items present from offset on, at most count of them;
\* fewer than count cannot be reshaped.
FromFile(f, itemsize, count, offset) ==
    LET avail == IF offset >= Len(f) THEN 0 ELSE (Len(f) - offset) \div itemsize
        got == Min(count, avail)
    IN IF got # count
       THEN [raised |-> "ValueError", axis |-> "data", opened |-> TRUE,
             at |-> offset, nbytes |-> got * itemsize, elems |-> 0,
             elemsize |-> 0, data |-> <<>>]
       ELSE [raised |-> "", axis |-> "", opened |-> TRUE, at |-> offset,
             nbytes |-> got * itemsize, elems |-> count, elemsize |-> itemsize,
             data |-> Read(f, offset, count * itemsize)]

\* Lines 138-172.
GetItem(f, im, n) ==
    LET seek_distance == im.channels * im.dims[2] * im.dims[3] * im.dims[4] IN
    IF n >= seek_distance THEN Raise("ValueError", "item")
    ELSE LET image_len == IF im.offsets[2] = 0
                          THEN seek_distance * im.dims[5] * im.dims[6]
                          ELSE im.offsets[2] \div seek_distance
             at == im.offsets[1] + image_len * n
         IN IF im.offsets[2] = 0
            THEN FromBytes(im.dims[5], im.dims[6], Zeros(image_len), at, 0)
            ELSE FromBytes(im.dims[5], im.dims[6], Read(f, at, image_len), at,
                           Len(Read(f, at, image_len)))

\* Lines 48-77.
GetItemNp(f, im, n) ==
    LET n_planes == Prod(SubSeq(im.dims, 1, 4))
        plane_size == im.dims[5] * im.dims[6]
        plane_bytes == plane_size * im.itemsize
    IN IF n >= n_planes THEN Raise("ValueError", "item")
       ELSE FromFile(f, im.itemsize, plane_size, im.offsets[1] + plane_bytes * n)

\* Lines 187-220.
GetFrame(f, im, z, t, c, m, return_as_np) ==
    IF z >= im.nz THEN Raise("ValueError", "Z")
    ELSE IF t >= im.nt THEN Raise("ValueError", "T")
    ELSE IF c >= im.channels THEN Raise("ValueError", "channel")
    ELSE IF m >= im.dims[4] THEN Raise("ValueError", "tile")
    ELSE LET total_items == im.channels * im.nz * im.nt * im.dims[4]
             m_requested == im.channels * im.nz * im.nt * m
             t_requested == im.channels * im.nz * t
             c_requested == im.nz * c
             item_requested == m_requested + t_requested + z + c_requested
         IN IF item_requested > total_items THEN Raise("ValueError", "item")
            ELSE IF return_as_np THEN GetItemNp(f, im, item_requested)
            ELSE GetItem(f, im, item_requested)

\* Lines 93-109.
GetFrameNp(f, im, z, t, c, m) ==
    LET offset == m * im.stride[4] + t * im.stride[3] + z * im.stride[2]
                  + c * im.stride[1]
    IN FromFile(f, im.itemsize, im.dims[5] * im.dims[6], offset)

\* Lines 123-136.
GetStackNp(f, im, m) ==
    LET stackdims == SubSeq(im.dims, 1, 3) \o SubSeq(im.dims, 5, 6)
        offset == im.offsets[1] + m * im.stride[4]
    IN FromFile(f, im.itemsize, Prod(stackdims), offset)

\* The handle count after a call that ended with r: the with block closes
\* the file it opened, whether the body returned or raised.
AfterWith(h, r) == IF r.opened THEN Release(Acquire(h)) ELSE h

Call(op, z, t, c, m, np, r) ==
    /\ last' = [op |-> op, z |-> z, t |-> t, c |-> c, m |-> m, np |-> np] @@ r
    /\ openHandles' = AfterWith(openHandles, r)
    /\ gen' = NoGen
    /\ UNCHANGED <<container, img>>

Coords == 0..MaxCoord

\* The fixed coordinates handed to the iterators.
IterCoords == 0..(MaxCoord - 1)

get_frame ==
    /\ img # <<>>
    /\ \E z \in Coords, t \in Coords, c \in Coords, m \in Coords,
          return_as_np \in BOOLEAN :
          Call("get_frame", z, t, c, m, return_as_np,
               GetFrame(file, img, z, t, c, m, return_as_np))

get_frame_np ==
    /\ img # <<>>
    /\ \E z \in Coords, t \in Coords, c \in Coords, m \in Coords :
          Call("get_frame_np", z, t, c, m, TRUE,
               GetFrameNp(file, img, z, t, c, m))

get_stack_np ==
    /\ img # <<>>
    /\ \E m \in Coords :
          Call("get_stack_np", 0, 0, 0, m, TRUE, GetStackNp(file, img, m))

\* --------------------------------------------------------- axis iterators
\* The loop bound of each get_iter_* (lines 287, 306, 326, 346).
AxisSize(im, axis) ==
    CASE axis = "m" -> im.dims[4]
      [] axis = "t" -> im.nt
      [] axis = "c" -> im.channels
      [] axis = "z" -> im.nz

\* The arguments <<z, t, c, m>> of the get_frame call in the loop body, the
\* loop variable k in the place of the iterated axis.
FrameArgs(g, k) ==
    <<IF g.axis = "z" THEN k ELSE g.z, IF g.axis = "t" THEN k ELSE g.t,
      IF g.axis = "c" THEN k ELSE g.c, IF g.axis = "m" THEN k ELSE g.m>>

\* Planes the generator g has yielded so far.
Consumed(g) == IF g.axis = "none" THEN 0 ELSE Len(g.yielded)

\* Calling a generator function runs none of its body: the loop variable
\* is set to 0 by the first next().  earlier: how many planes the
\* generator that this one replaces had yielded.
NewGen(axis, z, t, c, m, earlier) ==
    [axis |-> axis, z |-> z, t |-> t, c |-> c, m |-> m, k |-> 0,
     yielded |-> <<>>, status |-> "created", earlier |-> earlier]

IterCall(axis, z, t, c, m) ==
    /\ img # <<>>
    /\ gen' = NewGen(axis, z, t, c, m, Consumed(gen))
    /\ last' = NoCall
    /\ UNCHANGED <<container, openHandles, img>>

get_iter_m == \E z \in IterCoords, c \in IterCoords, t \in IterCoords : IterCall("m", z, t, c, 0)

get_iter_t == \E z \in IterCoords, c \in IterCoords, m \in IterCoords : IterCall("t", z, 0, c, m)

get_iter_c == \E z \in IterCoords, t \in IterCoords, m \in IterCoords : IterCall("c", z, t, 0, m)

get_iter_z == \E t \in IterCoords, c \in IterCoords, m \in IterCoords : IterCall("z", 0, t, c, m)

\* Whether the while condition of the loop holds for loop variable k.
LoopTest(k, size) == k < size

\* next(gen): run the body to its next yield, to its end, or to the
\* exception get_frame raises.
IterNext ==
    /\ gen.axis # "none"
    /\ gen.status \in {"created", "suspended"}
    /\ IF LoopTest(gen.k, AxisSize(img, gen.axis))
       THEN LET a == FrameArgs(gen, gen.k)
                r == GetFrame(file, img, a[1], a[2], a[3], a[4], FALSE)
            IN /\ openHandles' = AfterWith(openHandles, r)
               /\ gen' = IF r.raised # ""
                         THEN [gen EXCEPT !.status = "raised"]
                         ELSE [gen EXCEPT !.status = "suspended",
                                          !.yielded = Append(@, a),
                                          !.k = @ + 1]
       ELSE /\ gen' = [gen EXCEPT !.status = "done"]
            /\ UNCHANGED openHandles
    /\ last' = NoCall
    /\ UNCHANGED <<container, img>>

Next == OpenHeader \/ ScanBlock \/ Finish

Spec == Init /\ [][Next]_vars

\* The accessors, on containers opened from a smaller family of files.
NextAccess ==
    \/ Next
    \/ \E img_n \in (-MaxCoord)..MaxCoord : get_image(img_n)
    \/ get_frame \/ get_frame_np \/ get_stack_np
    \/ get_iter_m \/ get_iter_t \/ get_iter_c \/ get_iter_z
    \/ IterNext

SpecAccess == InitAccess /\ [][NextAccess]_vars

\* ===================================================================== C1
\* C1: whenever __init__ completes without raising, the number of recorded
\* blocks equals the number of image descriptors, truncated or not.
\* The code pads only when blocks are missing: a truncated file with more
\* blocks than descriptors opens with the counts unequal.
C1_BlocksMatchDescriptors ==
    pc = "opened" => Len(offsets) = Len(image_list)

\* C1, the part the code keeps: the counts are equal when the truncation
\* flag is not set, and the blocks are never fewer than the descriptors.
C1_NoFewerBlocks ==
    pc = "opened" =>
        /\ Len(offsets) >= Len(image_list)
        /\ ~truncated => Len(offsets) = Len(image_list)

\* ===================================================================== C2
\* The 100 bytes that start 4 bytes before position fp, when the file holds
\* them all.
WindowPresent(f, fp) == fp - TruncBack + TruncWindow <= Len(f)

WindowAllZero(f, fp) ==
    \A i \in 1..TruncWindow : f[fp - TruncBack + i] = 0

C7_BlocksWithinFile ==
    (pc = "opened" /\ ~truncated) =>
        \A i \in 1..Len(offsets) : offsets[i][1] + offsets[i][2] <= f_len

\* ==================================================================== C10
\* A layout of block headers only, each with its whole payload except
\* possibly the last.
IsBlockLayout(lay) ==
    \A i \in 1..Len(lay) :
        /\ lay[i] \in 1..Len(BlockKinds)
        /\ BlockKinds[lay[i]].pay < BlockKinds[lay[i]].len => i = Len(lay)

\* The position just after the description-length field of the j-th header
\* of the layout, the first header starting at position start.
RECURSIVE AfterDescLen(_, _, _)
AfterDescLen(lay, j, start) ==
    LET b == BlockKinds[Head(lay)]
        after == start + 4 + 4 + 1 + (IF b.wide THEN 8 ELSE 4) + 1 + 4
    IN IF j = 1 THEN after
       ELSE AfterDescLen(Tail(lay), j - 1, after + 2 * b.d + b.len)

\* Where the claim puts the header after the first j, and the blocks it
\* expects of the first j headers.
HeaderAfter(in, j) ==
    IF j = 0 THEN 13 + 2 * (Len(in.doc) + 2)
    ELSE AfterDescLen(in.lay, j, 13 + 2 * (Len(in.doc) + 2))
         + 2 * BlockKinds[in.lay[j]].d + BlockKinds[in.lay[j]].len

RECURSIVE ExpectedBlocks(_, _)
ExpectedBlocks(in, j) ==
    IF j = 0 THEN <<>>
    ELSE LET b == BlockKinds[in.lay[j]]
             before == ExpectedBlocks(in, j - 1)
         IN IF b.len > 0
            THEN Append(before,
                        <<AfterDescLen(in.lay, j, 13 + 2 * (Len(in.doc) + 2))
                            + 2 * b.d, b.len>>)
            ELSE before

\* C10: over a well-formed sequence of block headers the scan stands, after
\* j passes, at 2D + blockLength bytes past the description-length field of
\* header j and has recorded, in file order, one block
\* <<position after the description-length field + 2D, declared length>>
\* per header of declared length > 0 among the first j, and none for a
\* header of length 0; it ends after the last header with no error of the
\* scan and no truncation.
C10_ScanOutput ==
    (input.bad = 0 /\ IsBlockLayout(input.lay) /\ pc # "init") =>
        /\ ~truncated /\ fail_at = -1
        /\ pc = "scan" =>
              \E j \in 0..Len(input.lay) :
                  /\ pos = HeaderAfter(input, j)
                  /\ offsets = ExpectedBlocks(input, j)
                  /\ pos >= f_len => j = Len(input.lay)
        /\ pc \in {"opened", "failed"} =>
              /\ offsets = ExpectedBlocks(input, Len(input.lay))
              /\ pos = HeaderAfter(input, Len(input.lay))
              /\ pc = "failed" => err \in {"IndexError", "ValueError"}

\* C10's case: an 8-byte header with a description and a header of length
\* 0 scanned to the end, the first recorded and the second not.
C10_Witness ==
    /\ input.bad = 0 /\ input.lay = <<3, 2>>
    /\ pc = "scan" /\ pos >= f_len
    /\ Len(offsets) = 1 /\ offsets[1][2] = BlockKinds[3].len

\* ============================================================== accessors
\* The coordinates <<z, t, c, m>> lie within the axes of image im.
ValidCoords(im, z, t, c, m) ==
    z < im.nz /\ t < im.nt /\ c < im.channels /\ m < im.dims[4]

\* The axes, as the range errors name them, on which a coordinate is at or
\* beyond the size of the axis.
OffendingAxes(im, z, t, c, m) ==
    {a \in {"Z", "T", "channel", "tile"} :
        \/ a = "Z" /\ z >= im.nz
        \/ a = "T" /\ t >= im.nt
        \/ a = "channel" /\ c >= im.channels
        \/ a = "tile" /\ m >= im.dims[4]}

\* height * width of a plane of image im.
PlaneElems(im) == im.dims[5] * im.dims[6]

IsPlaneRead == last.op \in {"get_frame", "get_frame_np"}

\* ===================================================================== C3
\* C3: on an image whose block has length 0, a single-plane read at valid
\* coordinates, in either return mode of get_frame, returns a zero-filled
\* plane of height * width elements, takes no byte from the file and does
\* not raise.  With return_as_np the read goes to the file at the
\* truncation offset all the same.
C3_TruncatedReadsZero ==
    (last.op = "get_frame" /\ img.offsets[2] = 0
        /\ ValidCoords(img, last.z, last.t, last.c, last.m)) =>
        /\ last.raised = ""
        /\ last.elems = PlaneElems(img)
        /\ \A i \in 1..Len(last.data) : last.data[i] = 0
        /\ last.nbytes = 0

\* C3, the part the code keeps: the reads that return a PIL image.
C3_TruncatedReadsZeroPil ==
    (last.op = "get_frame" /\ ~last.np /\ img.offsets[2] = 0
        /\ ValidCoords(img, last.z, last.t, last.c, last.m)) =>
        /\ last.raised = ""
        /\ last.elems = PlaneElems(img)
        /\ \A i \in 1..Len(last.data) : last.data[i] = 0
        /\ last.nbytes = 0

\* ===================================================================== C4
\* C4: get_frame and get_frame_np raise a range error that names an
\* offending axis, and read nothing, when a coordinate is at or beyond its
\* axis; within bounds they return height * width elements of the declared
\* byte depth.  get_frame_np checks no coordinate.
C4_RangeChecked ==
    IsPlaneRead =>
        IF ValidCoords(img, last.z, last.t, last.c, last.m)
        THEN /\ last.raised = ""
             /\ last.elems = PlaneElems(img)
             /\ last.elemsize = img.itemsize
        ELSE /\ last.raised = "ValueError"
             /\ last.axis \in OffendingAxes(img, last.z, last.t, last.c, last.m)
             /\ ~last.opened /\ last.nbytes = 0

\* C4, the part the code keeps: get_frame rejects every coordinate at or
\* beyond its axis before it opens the file, naming an offending axis.
C4_GetFrameRejects ==
    (last.op = "get_frame"
        /\ ~ValidCoords(img, last.z, last.t, last.c, last.m)) =>
        /\ last.raised = "ValueError"
        /\ last.axis \in OffendingAxes(img, last.z, last.t, last.c, last.m)
        /\ ~last.opened /\ last.nbytes = 0

\* ===================================================================== C5
\* C5: at valid coordinates of an image with a non-empty block the read
\* starts at block.fileOffset + c*stride[0] + z*stride[1] + t*stride[2]
\* + m*stride[3].  get_frame_np leaves the block's offset out; get_frame
\* counts planes in its own order and never reads the strides.
C5_ReadPosition ==
    (IsPlaneRead /\ img.offsets[2] # 0
        /\ ValidCoords(img, last.z, last.t, last.c, last.m)) =>
        last.at = img.offsets[1] + last.c * img.stride[1] + last.z * img.stride[2]
                    + last.t * img.stride[3] + last.m * img.stride[4]

\* ===================================================================== C6
\* C6: an axis iterator whose three other coordinates are valid yields the
\* planes of get_frame at 0, 1, ..., N - 1 of its axis, in that order, then
\* ends; a fresh iterator starts at 0 however far the one before it got.
\* The iterator ends early, with the error of the read, when get_frame
\* raises at a valid coordinate (a block that holds too few bytes).
C6_IterYieldsAxis ==
    (gen.axis # "none"
        /\ ValidCoords(img, FrameArgs(gen, 0)[1], FrameArgs(gen, 0)[2],
                       FrameArgs(gen, 0)[3], FrameArgs(gen, 0)[4])) =>
        /\ gen.status # "raised"
        /\ gen.yielded = [i \in 1..Len(gen.yielded) |-> FrameArgs(gen, i - 1)]
        /\ Len(gen.yielded) <= AxisSize(img, gen.axis)
        /\ gen.status = "done" => Len(gen.yielded) = AxisSize(img, gen.axis)
        /\ gen.status = "created" => gen.yielded = <<>>

\* C6, the part the code keeps: the order of the planes, their number when
\* the iterator ends by itself, and the restart from 0.
C6_IterOrder ==
    (gen.axis # "none"
        /\ ValidCoords(img, FrameArgs(gen, 0)[1], FrameArgs(gen, 0)[2],
                       FrameArgs(gen, 0)[3], FrameArgs(gen, 0)[4])) =>
        /\ gen.yielded = [i \in 1..Len(gen.yielded) |-> FrameArgs(gen, i - 1)]
        /\ Len(gen.yielded) <= AxisSize(img, gen.axis)
        /\ gen.status = "done" => Len(gen.yielded) = AxisSize(img, gen.axis)
        /\ gen.status = "created" => gen.yielded = <<>>
        /\ gen.status = "raised" => Len(gen.yielded) < AxisSize(img, gen.axis)

\* ===================================================================== C8
\* C8: no file handle is left open once an operation has returned or
\* raised.  __init__ closes its handle on line 566 only: every raise
\* before it leaves the handle open.
C8_HandlesReleased ==
    pc \in {"init", "opened", "failed"} => openHandles = 0

\* C8, the part the code keeps: the accessors and a successful open.
C8_HandlesReleasedOnSuccess ==
    pc \in {"init", "opened"} => openHandles = 0

\* ===================================================================== C9
\* C9: num_images is the number of images K; get_image(i) returns the
\* handle of descriptor i and block i for 0 <= i < K; for every other index
\* it raises, returns no handle and leaves the lists as they are.  A
\* negative index down to -K is taken from the end of the lists.
C9_GetImage ==
    [][last'.op = "get_image" =>
        /\ num_images' = Len(image_list')
        /\ IF last'.img_n \in 0..(Len(image_list) - 1)
           THEN /\ last'.raised = ""
                /\ img' = LifImage(image_list[last'.img_n + 1],
                                   offsets[last'.img_n + 1])
           ELSE /\ last'.raised \in {"ValueError", "IndexError"}
                /\ img' = img
        /\ offsets' = offsets /\ image_list' = image_list]_vars

\* C9, the part the code keeps: the indexes from 0 up.
C9_GetImageFromZero ==
    [][(last'.op = "get_image" /\ last'.img_n >= 0) =>
        /\ num_images' = Len(image_list')
        /\ IF last'.img_n \in 0..(Len(image_list) - 1)
           THEN /\ last'.raised = ""
                /\ img' = LifImage(image_list[last'.img_n + 1],
                                   offsets[last'.img_n + 1])
           ELSE /\ last'.raised = "ValueError"
                /\ img' = img
        /\ offsets' = offsets /\ image_list' = image_list]_vars

\* ==================================================================== C11
\* The image elements of the document, in document order.
ImageElements(root) ==
    SelectSeq(root, LAMBDA k : ElementKinds[k].image)

\* C11: building the descriptor of a leaf image with exactly one
\* channel description never ends open with an index-out-of-range error;
\* once open has succeeded every image element of the document has its
\* descriptor, and that of a single-channel image has channel-axis size 1.
C11_SingleChannelDescriptor ==
    /\ err # "IndexError"
    /\ pc = "opened" =>
          LET images == ImageElements(xml_root) IN
          /\ Len(image_list) = Len(images)
          /\ \A i \in 1..Len(images) :
                /\ image_list[i].channels = Len(ElementKinds[images[i]].chans)
                /\ image_list[i].dims[1] = image_list[i].channels

\* C11, the part the code keeps: the descriptors of an opened container are
\* those of its image elements, each with at least two channels.
C11_DescriptorsOfOpened ==
    pc = "opened" =>
        LET images == ImageElements(xml_root) IN
        /\ Len(image_list) = Len(images)
        /\ \A i \in 1..Len(images) :
              /\ image_list[i].channels = Len(ElementKinds[images[i]].chans)
              /\ image_list[i].dims[1] = image_list[i].channels
              /\ image_list[i].channels >= 2

====
